---- MODULE Spec2Model ----
(***************************************************************************)
(* Model of data/reconvert_all.py: a batch script that changes into its    *)
(* own directory, re-saves every *.npy file in place and writes a          *)
(* <name>.repr dump beside it, then writes a <name>.repr dump for every    *)
(* *.npz archive.                                                          *)
(*                                                                         *)
(* The file system is a function from paths to contents.  A path is a      *)
(* directory and a file name; a file name is a sequence of tokens, so that *)
(* 'fname + ".repr"' and the glob patterns are computed, not assumed.      *)
(* The numpy calls are modelled by what they do with a file's bytes:       *)
(* np.load dispatches on the bytes (the magic prefix), not on the name,    *)
(* and np.save opens its target for writing before it converts its         *)
(* argument.  Platform: POSIX (fnmatch is case sensitive).                 *)
(***************************************************************************)
EXTENDS Integers, Sequences, FiniteSets, TLC

VARIABLES
    pc,      \* position in the script
    cwd,     \* the process's working directory
    fs,      \* the file system: path -> content
    todo,    \* the names of the running for-loop's list not yet visited
    fname,   \* the loop variable
    data,    \* the loaded value
    f,       \* the open text file of the with-block
    fs0,     \* history: the file system when the run started
    log      \* history: the calls made so far, in order

vars == <<pc, cwd, fs, todo, fname, data, f, fs0, log>>

\* The number of directory entries present when the run starts.
MaxFiles == 3

(***************************************************************************)
(* Directories, names, paths                                               *)
(***************************************************************************)
ScriptDir == "data"        \* os.path.dirname(os.path.abspath(__file__))
LaunchDir == "home"        \* some other directory the script is started from
SubDir    == "data/sub"    \* a subdirectory of the script's directory

Path(d, n) == [dir |-> d, name |-> n]

Npy  == ".npy"
Npz  == ".npz"
Rpr  == ".repr"

\* The tokens that begin with a dot.
DotTokens == {Npy, Npz, Rpr}

\* Names of the script's directory that may exist at the start.
StartNames ==
    { <<"a", Npy>>, <<"b", Npy>>, <<"a", Npz>>,
      <<"a", Npy, Rpr>>, <<"a", Npz, Rpr>>,
      <<Npy>>, <<"sub">> }

\* The script's own file: always there, since it is what runs.
ScriptName == <<"reconvert_all", ".py">>

StartPaths ==
    { Path(ScriptDir, n) : n \in StartNames }
      \cup { Path(LaunchDir, <<"a", Npy>>), Path(SubDir, <<"a", Npy>>) }

(***************************************************************************)
(* Arrays, archives, file contents                                         *)
(***************************************************************************)
A22 == [dtype |-> "int64",   shape |-> <<2, 2>>, vals |-> <<"1", "2", "3", "4">>]
A3  == [dtype |-> "float32", shape |-> <<3>>,    vals |-> <<"1.", "2.", "3.">>]

Member(k, a) == [key |-> k, val |-> a]

\* The member lists of the archives, in archive order.
M1 == << Member("x", A3) >>
M2 == << Member("x", A22), Member("y", A3) >>

NpyFile(a, h) == [kind |-> "npy", arr |-> a, hdr |-> h]
NpzFile(m)    == [kind |-> "npz", members |-> m]
TextFile(t)   == [kind |-> "text", toks |-> t]
BadFile       == [kind |-> "bad"]     \* bytes np.load rejects (truncated, garbage)
DirEntry      == [kind |-> "dir"]     \* a directory

\* A dump left by an earlier run, longer than any dump this run writes.
Stale == TextFile(<<"old", "old", "old", "old", "old", "old", "old", "old",
                    "old", "old", "old", "old", "old", "old", "old", "old",
                    "old", "old", "old", "old", "old", "old", "old", "old">>)

ScriptFile == TextFile(<<"#!/usr/bin/env python3">>)

Contents ==
    { NpyFile(A22, "legacy"), NpyFile(A3, "v1"),
      NpzFile(M1), NpzFile(M2), BadFile, Stale, DirEntry }

Exists(p) == p \in DOMAIN fs

Put(p, c) == [q \in (DOMAIN fs) \cup {p} |-> IF q = p THEN c ELSE fs[q]]

(***************************************************************************)
(* Values held by the script's variable 'data'                             *)
(***************************************************************************)
None        == [kind |-> "None"]
NdArray(a)  == [kind |-> "ndarray", arr |-> a]
NpzObj(m)   == [kind |-> "NpzFile", members |-> m]
Str(s)      == [kind |-> "str", v |-> s]
Scalar(v)   == [kind |-> "scalar", v |-> v]
Dict(items) == [kind |-> "dict", items |-> items]
Exc         == [kind |-> "raise"]     \* the call raised instead of returning

(***************************************************************************)
(* glob.glob(pattern) for a pattern '*<ext>': the entries of the working   *)
(* directory (files and directories alike) whose name ends in ext, hidden  *)
(* names left out because the pattern does not begin with a dot.           *)
(***************************************************************************)
EndsWith(n, ext) == Len(n) >= 1 /\ n[Len(n)] = ext

Hidden(n) == Len(n) >= 1 /\ n[1] \in DotTokens

Matches(n, ext) == EndsWith(n, ext) /\ ~Hidden(n)

Listdir(files, d) == { p.name : p \in { q \in DOMAIN files : q.dir = d } }

Glob(files, d, ext) == { n \in Listdir(files, d) : Matches(n, ext) }

\* A relative name resolves against the working directory.
Resolve(n) == Path(cwd, n)

(***************************************************************************)
(* np.load(fname): the bytes decide what comes back, whatever the name.    *)
(***************************************************************************)
NpLoad(p) ==
    IF ~Exists(p) THEN Exc
    ELSE CASE fs[p].kind = "npy" -> NdArray(fs[p].arr)
           [] fs[p].kind = "npz" -> NpzObj(fs[p].members)
           [] OTHER              -> Exc

(***************************************************************************)
(* dict(x): an NpzFile is a mapping and gives every member; an array is    *)
(* iterated by rows and gives a dict only when every row has two elements. *)
(***************************************************************************)
DictOf(x) ==
    CASE x.kind = "NpzFile" ->
           Dict([i \in 1..Len(x.members) |->
                    [key |-> Str(x.members[i].key), val |-> NdArray(x.members[i].val)]])
      [] x.kind = "ndarray" /\ Len(x.arr.shape) = 2 /\ x.arr.shape[2] = 2 ->
           Dict([i \in 1..x.arr.shape[1] |->
                    [key |-> Scalar(x.arr.vals[2 * i - 1]), val |-> Scalar(x.arr.vals[2 * i])]])
      [] OTHER -> Exc

(***************************************************************************)
(* np.asanyarray(NpzFile): the object iterates over its member names.      *)
(***************************************************************************)
KeysArray(m) ==
    [dtype |-> "str", shape |-> <<Len(m)>>, vals |-> [i \in 1..Len(m) |-> m[i].key]]

(***************************************************************************)
(* repr(data), as a sequence of text tokens                                *)
(***************************************************************************)
RECURSIVE Join(_, _)
Join(parts, sep) ==
    IF parts = <<>> THEN <<>>
    ELSE IF Len(parts) = 1 THEN parts[1]
    ELSE parts[1] \o sep \o Join(Tail(parts), sep)

Bracket(t) == <<"[">> \o t \o <<"]">>

ReprElems(vals) == Bracket(Join([i \in 1..Len(vals) |-> <<vals[i]>>], <<",">>))

ReprNested(a) ==
    IF Len(a.shape) = 1 THEN ReprElems(a.vals)
    ELSE Bracket(Join([r \in 1..a.shape[1] |->
                          ReprElems(SubSeq(a.vals, (r - 1) * a.shape[2] + 1, r * a.shape[2]))],
                      <<",", "\n">>))

\* The element type is printed only when it is not the default one.
ReprArray(a) ==
    <<"array(">> \o ReprNested(a)
        \o (IF a.dtype = "int64" THEN <<>> ELSE <<",", "dtype=", a.dtype>>)
        \o <<")">>

ReprAtom(x) ==
    CASE x.kind = "ndarray" -> ReprArray(x.arr)
      [] x.kind = "str"     -> <<"'", x.v, "'">>
      [] x.kind = "scalar"  -> <<x.v>>

Repr(x) ==
    CASE x.kind = "dict" ->
           <<"{">> \o Join([i \in 1..Len(x.items) |->
                               ReprAtom(x.items[i].key) \o <<":">> \o ReprAtom(x.items[i].val)],
                           <<",">>)
                   \o <<"}">>
      [] x.kind = "NpzFile" -> <<"<NpzFile>">>
      [] OTHER -> ReprAtom(x)

Newline == <<"\n">>

\* Faulty variant of NpSave: the array is written with its shape flattened.
NpSaveFlattened(x) ==
    IF x.kind = "ndarray"
    THEN { [written |-> NpyFile([x.arr EXCEPT !.shape = <<Len(x.arr.vals)>>], "v1"),
            raised |-> FALSE] }
    ELSE { [written |-> NpyFile(KeysArray(x.members), "v1"), raised |-> FALSE],
           [written |-> BadFile, raised |-> TRUE] }

(***************************************************************************)
(* np.save(fname, x): the target ends in '.npy', so no suffix is added.    *)
(* The target is opened for writing, then x is converted to an array and   *)
(* written.  An array is written in the current header layout.  An NpzFile *)
(* either converts to the array of its member names, or the conversion or  *)
(* the pickling of it raises with the target already truncated: which one  *)
(* depends on the numpy build, so both are outcomes.                       *)
(***************************************************************************)
NpSave(x) ==
    IF x.kind = "ndarray"
    THEN { [written |-> NpyFile(x.arr, "v1"), raised |-> FALSE] }
    ELSE { [written |-> NpyFile(KeysArray(x.members), "v1"), raised |-> FALSE],
           [written |-> BadFile, raised |-> TRUE] }

(***************************************************************************)
(* The run                                                                 *)
(***************************************************************************)
Event(op, p) == [op |-> op, path |-> p]

StartSets == { S \in SUBSET StartPaths : Cardinality(S) <= MaxFiles }

\* A file below the subdirectory needs the subdirectory.
WellFormed(c) ==
    \A p \in DOMAIN c :
        p.dir = SubDir =>
            /\ Path(ScriptDir, <<"sub">>) \in DOMAIN c
            /\ c[Path(ScriptDir, <<"sub">>)] = DirEntry

WithScript(c) ==
    [p \in (DOMAIN c) \cup {Path(ScriptDir, ScriptName)} |->
        IF p = Path(ScriptDir, ScriptName) THEN ScriptFile ELSE c[p]]

Init ==
    /\ pc = "chdir"
    /\ cwd \in {ScriptDir, LaunchDir}
    /\ \E S \in StartSets : \E c \in [S -> Contents] :
          /\ WellFormed(c)
          /\ fs = WithScript(c)
          /\ fs0 = WithScript(c)
    /\ todo = {}
    /\ fname = <<>>
    /\ data = None
    /\ f = None
    /\ log = <<>>

\* Faulty variant of Raise: the exception is caught and the loop goes on with
\* the next name.
RaiseSwallowed(p) ==
    /\ pc' = (IF Matches(fname, Npy) THEN "npy_for" ELSE "npz_for")
    /\ log' = Append(log, Event("raise", p))

\* An exception nobody catches ends the run.
Raise(p) ==
    /\ pc' = "error"
    /\ log' = Append(log, Event("raise", p))

\* Faulty variant of Chdir: the working directory is left as it was.
ChdirSkipped ==
    /\ pc = "chdir"
    /\ cwd' = cwd
    /\ pc' = "glob_npy"
    /\ UNCHANGED <<fs, todo, fname, data, f, fs0, log>>

\* line 7: os.chdir(os.path.dirname(os.path.abspath(__file__)))
Chdir ==
    /\ pc = "chdir"
    /\ cwd' = ScriptDir
    /\ pc' = "glob_npy"
    /\ UNCHANGED <<fs, todo, fname, data, f, fs0, log>>

\* line 9: the list glob.glob('*.npy') is made once, before the first iteration.
GlobNpy ==
    /\ pc = "glob_npy"
    /\ todo' = Glob(fs, cwd, Npy)
    /\ pc' = "npy_for"
    /\ UNCHANGED <<cwd, fs, fname, data, f, fs0, log>>

\* Faulty variant of NpyNext: the loop is left after its first name.
NpyNextBreak ==
    /\ pc = "npy_for"
    /\ \E n \in todo :
          /\ fname' = n
          /\ todo' = {}
    /\ pc' = "npy_load"
    /\ UNCHANGED <<cwd, fs, data, f, fs0, log>>

\* line 9: the next name of the list; glob gives no order, so any name left.
NpyNext ==
    /\ pc = "npy_for"
    /\ \E n \in todo :
          /\ fname' = n
          /\ todo' = todo \ {n}
    /\ pc' = "npy_load"
    /\ UNCHANGED <<cwd, fs, data, f, fs0, log>>

\* line 9: the list is exhausted.
NpyExhausted ==
    /\ pc = "npy_for"
    /\ todo = {}
    /\ pc' = "glob_npz"
    /\ UNCHANGED <<cwd, fs, todo, fname, data, f, fs0, log>>

\* Faulty variant of NpyLoad: the dump is written without the re-save.
NpyLoadSkipSave ==
    /\ pc = "npy_load"
    /\ LET p == Resolve(fname)
           r == NpLoad(p)
       IN  IF r.kind = "raise"
           THEN Raise(p) /\ UNCHANGED data
           ELSE /\ data' = r
                /\ log' = Append(log, Event("load", p))
                /\ pc' = "npy_open"
    /\ UNCHANGED <<cwd, fs, todo, fname, f, fs0>>

\* line 10: data = np.load(fname)
NpyLoad ==
    /\ pc = "npy_load"
    /\ LET p == Resolve(fname)
           r == NpLoad(p)
       IN  IF r.kind = "raise"
           THEN Raise(p) /\ UNCHANGED data
           ELSE /\ data' = r
                /\ log' = Append(log, Event("load", p))
                /\ pc' = "npy_save"
    /\ UNCHANGED <<cwd, fs, todo, fname, f, fs0>>

\* line 11: np.save(fname, data)
NpySave ==
    /\ pc = "npy_save"
    /\ LET p == Resolve(fname)
       IN  \E o \in NpSave(data) :
              /\ fs' = Put(p, o.written)
              /\ IF o.raised
                 THEN /\ pc' = "error"
                      /\ log' = log \o <<Event("save", p), Event("raise", p)>>
                 ELSE /\ pc' = "npy_open"
                      /\ log' = Append(log, Event("save", p))
    /\ UNCHANGED <<cwd, todo, fname, data, f, fs0>>

\* Faulty variant of OpenW: mode 'a', which keeps what a text file held.
OpenAppend(p, next) ==
    IF Exists(p) /\ fs[p].kind = "dir"
    THEN Raise(p) /\ UNCHANGED <<fs, f>>
    ELSE /\ fs' = (IF Exists(p) /\ fs[p].kind = "text" THEN fs ELSE Put(p, TextFile(<<>>)))
         /\ f' = [path |-> p, buf |-> <<>>]
         /\ log' = Append(log, Event("open", p))
         /\ pc' = next

\* open(name, 'w'): creates the file or truncates it; a directory cannot be opened.
OpenW(p, next) ==
    IF Exists(p) /\ fs[p].kind = "dir"
    THEN Raise(p) /\ UNCHANGED <<fs, f>>
    ELSE /\ fs' = Put(p, TextFile(<<>>))
         /\ f' = [path |-> p, buf |-> <<>>]
         /\ log' = Append(log, Event("open", p))
         /\ pc' = next

\* f.write(text): the text goes to the file object's buffer.
Write(text, next) ==
    /\ f' = [f EXCEPT !.buf = @ \o text]
    /\ pc' = next

\* leaving the with-block closes the file, which flushes the buffer.
Close(next) ==
    /\ fs' = Put(f.path, TextFile(fs[f.path].toks \o f.buf))
    /\ f' = None
    /\ log' = Append(log, Event("close", f.path))
    /\ pc' = next

\* Faulty variant of NpyOpen: the dump's name replaces the suffix instead of
\* extending the name.
NpyOpenStem ==
    /\ pc = "npy_open"
    /\ OpenW(Resolve(SubSeq(fname, 1, Len(fname) - 1) \o <<Rpr>>), "npy_write")
    /\ UNCHANGED <<cwd, todo, fname, data, fs0>>

\* line 12: with open(fname + '.repr', 'w') as f
NpyOpen ==
    /\ pc = "npy_open"
    /\ OpenW(Resolve(fname \o <<Rpr>>), "npy_write")
    /\ UNCHANGED <<cwd, todo, fname, data, fs0>>

\* line 13: f.write(repr(data))
NpyWriteRepr ==
    /\ pc = "npy_write"
    /\ Write(Repr(data), "npy_newline")
    /\ UNCHANGED <<cwd, fs, todo, fname, data, fs0, log>>

\* line 14: f.write('\n')
NpyWriteNewline ==
    /\ pc = "npy_newline"
    /\ Write(Newline, "npy_close")
    /\ UNCHANGED <<cwd, fs, todo, fname, data, fs0, log>>

\* line 14: the end of the with-block, then back to the head of the loop
NpyClose ==
    /\ pc = "npy_close"
    /\ Close("npy_for")
    /\ UNCHANGED <<cwd, todo, fname, data, fs0>>

\* line 18: the list glob.glob('*.npz') is made when the first loop has ended.
GlobNpz ==
    /\ pc = "glob_npz"
    /\ todo' = Glob(fs, cwd, Npz)
    /\ pc' = "npz_for"
    /\ UNCHANGED <<cwd, fs, fname, data, f, fs0, log>>

\* line 18: the next name of the list
NpzNext ==
    /\ pc = "npz_for"
    /\ \E n \in todo :
          /\ fname' = n
          /\ todo' = todo \ {n}
    /\ pc' = "npz_load"
    /\ UNCHANGED <<cwd, fs, data, f, fs0, log>>

\* line 18: the list is exhausted and the script ends.
NpzExhausted ==
    /\ pc = "npz_for"
    /\ todo = {}
    /\ pc' = "done"
    /\ UNCHANGED <<cwd, fs, todo, fname, data, f, fs0, log>>

\* Faulty variant of NpzLoad: the NpzFile is kept as it is, without dict().
NpzLoadNoDict ==
    /\ pc = "npz_load"
    /\ LET p == Resolve(fname)
           r == NpLoad(p)
       IN  IF r.kind = "raise"
           THEN Raise(p) /\ UNCHANGED data
           ELSE /\ data' = r
                /\ log' = Append(log, Event("load", p))
                /\ pc' = "npz_open"
    /\ UNCHANGED <<cwd, fs, todo, fname, f, fs0>>

\* line 19: data = dict(np.load(fname))
NpzLoad ==
    /\ pc = "npz_load"
    /\ LET p == Resolve(fname)
           r == NpLoad(p)
           d == IF r.kind = "raise" THEN Exc ELSE DictOf(r)
       IN  IF d.kind = "raise"
           THEN Raise(p) /\ UNCHANGED data
           ELSE /\ data' = d
                /\ log' = Append(log, Event("load", p))
                /\ pc' = "npz_open"
    /\ UNCHANGED <<cwd, fs, todo, fname, f, fs0>>

\* Faulty variant of NpzOpen: the archive itself is opened for writing.
NpzOpenArchive ==
    /\ pc = "npz_open"
    /\ OpenW(Resolve(fname), "npz_write")
    /\ UNCHANGED <<cwd, todo, fname, data, fs0>>

\* line 20: with open(fname + '.repr', 'w') as f
NpzOpen ==
    /\ pc = "npz_open"
    /\ OpenW(Resolve(fname \o <<Rpr>>), "npz_write")
    /\ UNCHANGED <<cwd, todo, fname, data, fs0>>

\* line 21: f.write(repr(data))
NpzWriteRepr ==
    /\ pc = "npz_write"
    /\ Write(Repr(data), "npz_newline")
    /\ UNCHANGED <<cwd, fs, todo, fname, data, fs0, log>>

\* line 22: f.write('\n')
NpzWriteNewline ==
    /\ pc = "npz_newline"
    /\ Write(Newline, "npz_close")
    /\ UNCHANGED <<cwd, fs, todo, fname, data, fs0, log>>

\* line 22: the end of the with-block, then back to the head of the loop
NpzClose ==
    /\ pc = "npz_close"
    /\ Close("npz_for")
    /\ UNCHANGED <<cwd, todo, fname, data, fs0>>

Next ==
    \/ Chdir
    \/ GlobNpy \/ NpyNext \/ NpyExhausted
    \/ NpyLoad \/ NpySave \/ NpyOpen \/ NpyWriteRepr \/ NpyWriteNewline \/ NpyClose
    \/ GlobNpz \/ NpzNext \/ NpzExhausted
    \/ NpzLoad \/ NpzOpen \/ NpzWriteRepr \/ NpzWriteNewline \/ NpzClose

Spec == Init /\ [][Next]_vars

\* The interpreter runs the script on: every enabled step is eventually taken.
FairSpec == Spec /\ WF_vars(Next)

(***************************************************************************)
(* Vocabulary of the properties                                            *)
(***************************************************************************)
\* The names a pattern matches in the script's directory when the run starts.
Inputs0(ext) == Glob(fs0, ScriptDir, ext)

InDir(n) == Path(ScriptDir, n)

Dump(n) == Path(ScriptDir, n \o <<Rpr>>)

ValidNpy0(n) == fs0[InDir(n)].kind = "npy"

ValidNpz0(n) == fs0[InDir(n)].kind = "npz"

Count(op, p) == Cardinality({ i \in DOMAIN log : log[i] = Event(op, p) })

Happened(op, p) == \E i \in DOMAIN log : log[i] = Event(op, p)

WriteOps == {"save", "open", "close"}

Written == { log[i].path : i \in { j \in DOMAIN log : log[j].op \in WriteOps } }

\* The dump the script is to write for an array.
ArrayDump(a) == TextFile(ReprArray(a) \o <<"\n">>)

\* The dump the script is to write for an archive: every member, in order.
MappingDump(m) ==
    TextFile(<<"{">>
             \o Join([i \in 1..Len(m) |-> <<"'", m[i].key, "'", ":">> \o ReprArray(m[i].val)],
                     <<",">>)
             \o <<"}", "\n">>)

\* C1: after a successful run every valid single-array file that was there at
\* the start still loads, from the same path, to the array it held before:
\* same shape, element type and values, whatever ran after its re-save.
C1_RoundTrip ==
    pc = "done" =>
        \A n \in Inputs0(Npy) :
            ValidNpy0(n) =>
                /\ Exists(InDir(n))
                /\ NpLoad(InDir(n)) = NdArray(fs0[InDir(n)].arr)

C1_Witness ==
    /\ pc = "done"
    /\ Cardinality({ n \in Inputs0(Npy) : ValidNpy0(n) }) >= 2
    /\ \E n \in Inputs0(Npy) : ValidNpy0(n) /\ fs[InDir(n)] # fs0[InDir(n)]

\* C2: after a successful run every valid single-array file F has a dump
\* F.repr holding exactly the array's textual representation and one newline,
\* also when F.repr existed before with other, longer content.
C2_ArrayDump ==
    pc = "done" =>
        \A n \in Inputs0(Npy) :
            ValidNpy0(n) =>
                /\ Exists(Dump(n))
                /\ fs[Dump(n)] = ArrayDump(fs0[InDir(n)].arr)

C2_Witness ==
    /\ pc = "done"
    /\ \E n \in Inputs0(Npy) :
          /\ ValidNpy0(n)
          /\ Dump(n) \in DOMAIN fs0
          /\ fs0[Dump(n)] = Stale

\* C3: in every state of the run every entry whose name ends in .npz holds
\* what it held at the start, and no write of the run targets such a path.
C3_ArchiveUntouched ==
    /\ \A p \in DOMAIN fs0 :
          EndsWith(p.name, Npz) => Exists(p) /\ fs[p] = fs0[p]
    /\ \A p \in Written : ~EndsWith(p.name, Npz)

C3_Witness ==
    /\ pc = "done"
    /\ \E n \in Inputs0(Npz) : ValidNpz0(n) /\ Happened("close", Dump(n))

\* C4: after a successful run every valid archive G has a dump G.repr holding
\* the textual representation of the mapping of every member name of G to its
\* array, and one newline.
C4_MappingDump ==
    pc = "done" =>
        \A n \in Inputs0(Npz) :
            ValidNpz0(n) =>
                /\ Exists(Dump(n))
                /\ fs[Dump(n)] = MappingDump(fs0[InDir(n)].members)

C4_Witness ==
    /\ pc = "done"
    /\ \E n \in Inputs0(Npz) :
          /\ ValidNpz0(n)
          /\ Len(fs0[InDir(n)].members) >= 2
          /\ Dump(n) \in DOMAIN fs0

\* C5: a *.npy file whose bytes are not a valid array encoding makes the run
\* end in error, never in success; the file is not overwritten and the run
\* writes no dump for it.
C5_CorruptAborts ==
    \A n \in Inputs0(Npy) :
        fs0[InDir(n)].kind \in {"bad", "text", "npz"} =>
            /\ pc # "done"
            /\ fs[InDir(n)] = fs0[InDir(n)]
            /\ ~Happened("open", Dump(n))

\* Nothing of the run has touched the input n or its dump.
Untouched(n) ==
    /\ \A i \in DOMAIN log : log[i].path \notin {InDir(n), Dump(n)}
    /\ fs[InDir(n)] = fs0[InDir(n)]
    /\ Exists(Dump(n)) <=> Dump(n) \in DOMAIN fs0
    /\ Exists(Dump(n)) => fs[Dump(n)] = fs0[Dump(n)]

\* The input n went through its whole loop body.
Processed(n) == Happened("close", Dump(n))

\* C6: a failure ends the run at once and rolls nothing back.  A raise is the
\* last call of the run; at the failure no input later in the order has been
\* read, overwritten or dumped (no archive at all when a single-array file
\* failed), and every input processed before keeps its re-saved content and
\* its dump.
C6_AbortNoRollback ==
    /\ \A i \in DOMAIN log : log[i].op = "raise" => (i = Len(log) /\ pc = "error")
    /\ pc = "error" =>
          /\ log # <<>> /\ log[Len(log)].op = "raise"
          /\ \A n \in todo : Untouched(n)
          /\ Matches(fname, Npy) => \A n \in Inputs0(Npz) : Untouched(n)
          /\ \A n \in Inputs0(Npy) :
                (Processed(n) /\ ValidNpy0(n)) =>
                    /\ fs[InDir(n)] = NpyFile(fs0[InDir(n)].arr, "v1")
                    /\ fs[Dump(n)] = ArrayDump(fs0[InDir(n)].arr)
          /\ \A n \in Inputs0(Npz) :
                (Processed(n) /\ ValidNpz0(n)) =>
                    fs[Dump(n)] = MappingDump(fs0[InDir(n)].members)

C6_Witness ==
    /\ pc = "error"
    /\ Matches(fname, Npy)
    /\ \E n \in Inputs0(Npy) : Processed(n) /\ ValidNpy0(n)
    /\ \E n \in Inputs0(Npz) : ValidNpz0(n)

NoInputs0 == Inputs0(Npy) = {} /\ Inputs0(Npz) = {}

\* C7: when the script's directory holds no name matching *.npy or *.npz, the
\* run ends in success and changes nothing: no file is created, modified or
\* deleted, and no write is even attempted.
C7_NoInputsNoOp ==
    NoInputs0 => ([](fs = fs0 /\ Written = {} /\ pc # "error") /\ <>(pc = "done"))

C7_Witness ==
    /\ pc = "done"
    /\ NoInputs0
    /\ Path(ScriptDir, <<Npy>>) \in DOMAIN fs0
    /\ Path(ScriptDir, <<"a", Npy, Rpr>>) \in DOMAIN fs0
    /\ Path(LaunchDir, <<"a", Npy>>) \in DOMAIN fs0

\* The paths the run may write.
Footprint0 ==
    { InDir(n) : n \in Inputs0(Npy) }
        \cup { Dump(n) : n \in Inputs0(Npy) \cup Inputs0(Npz) }

\* C8: the run re-saves only single-array inputs and opens only the dumps of
\* inputs, all in the script's directory; every other path keeps its content
\* and no other path appears; a successful run has written, for each
\* single-array input, the input and its dump, and for each archive its dump.
C8_WriteFootprint ==
    /\ \A i \in DOMAIN log :
          /\ log[i].op = "save" => log[i].path \in { InDir(n) : n \in Inputs0(Npy) }
          /\ log[i].op \in {"open", "close"} =>
                log[i].path \in { Dump(n) : n \in Inputs0(Npy) \cup Inputs0(Npz) }
    /\ \A p \in DOMAIN fs0 : p \notin Footprint0 => (Exists(p) /\ fs[p] = fs0[p])
    /\ (DOMAIN fs) \ (DOMAIN fs0) \subseteq Footprint0
    /\ pc = "done" => Written = Footprint0

C8_Witness ==
    /\ pc = "done"
    /\ Inputs0(Npy) # {}
    /\ Inputs0(Npz) # {}
    /\ \E p \in DOMAIN fs0 : p.dir # ScriptDir

Earlier(op, p, i) == \E j \in 1..(i - 1) : log[j] = Event(op, p)

\* The input a dump path belongs to.
Stem(n) == SubSeq(n, 1, Len(n) - 1)

\* C9: a single-array file's dump is opened only after the file was re-saved,
\* and an archive's dump is opened only after every single-array file found at
\* the start was re-saved and dumped.
C9_Order ==
    \A i \in DOMAIN log :
        log[i].op = "open" =>
            /\ Matches(Stem(log[i].path.name), Npy) =>
                  Earlier("save", InDir(Stem(log[i].path.name)), i)
            /\ Matches(Stem(log[i].path.name), Npz) =>
                  \A m \in Inputs0(Npy) :
                      /\ Earlier("save", InDir(m), i)
                      /\ Earlier("close", Dump(m), i)

C9_Witness ==
    /\ Cardinality(Inputs0(Npy)) >= 2
    /\ \E n \in Inputs0(Npz) : Happened("open", Dump(n))

\* Every input is what its name says, and no dump path is taken by a directory.
AllValid0 ==
    /\ \A n \in Inputs0(Npy) : ValidNpy0(n)
    /\ \A n \in Inputs0(Npz) : ValidNpz0(n)
    /\ \A n \in Inputs0(Npy) \cup Inputs0(Npz) :
          Dump(n) \in DOMAIN fs0 => fs0[Dump(n)].kind # "dir"

ExactlyOnce ==
    /\ \A n \in Inputs0(Npy) :
          /\ Count("load", InDir(n)) = 1
          /\ Count("save", InDir(n)) = 1
          /\ Count("open", Dump(n)) = 1
          /\ Count("close", Dump(n)) = 1
    /\ \A n \in Inputs0(Npz) :
          /\ Count("load", InDir(n)) = 1
          /\ Count("open", Dump(n)) = 1
          /\ Count("close", Dump(n)) = 1
    /\ Len(log) = 4 * Cardinality(Inputs0(Npy)) + 3 * Cardinality(Inputs0(Npz))

\* No path the run has created matches either pattern.
NoNewInputs ==
    \A p \in (DOMAIN fs) \ (DOMAIN fs0) :
        ~Matches(p.name, Npy) /\ ~Matches(p.name, Npz)

\* C10: when every input is valid the run ends in success with every *.npy
\* and every *.npz name processed exactly once, and the files it creates never
\* match a pattern, so that neither list grows.
C10_TerminatesExactlyOnce ==
    AllValid0 => ([]NoNewInputs /\ <>(pc = "done" /\ ExactlyOnce))

C10_Witness ==
    /\ pc = "done"
    /\ AllValid0
    /\ Cardinality(Inputs0(Npy)) >= 2
    /\ Inputs0(Npz) # {}
    /\ ExactlyOnce

====
